---- MODULE Spec2Model ----
(***************************************************************************)
(* Model of bin/zim_prioritisation.py: the cohort table loader             *)
(* (load_zim_db), the row-wise max-column builder (_make_gnomad_max_col)   *)
(* and the batch pipeline prioritise(), which validates the annotation     *)
(* table, builds the two gnomAD max columns, loads the cohort table, left  *)
(* joins, classifies impact, filters and writes two files.                 *)
(*                                                                         *)
(* A data frame is a record [columns, data]: columns is the sequence of    *)
(* column labels (labels may repeat after a rename), data the sequence of  *)
(* rows, each row a sequence of cells aligned with columns.                *)
(*                                                                         *)
(* A numeric cell is a record [k, n, d]: k = "num" is the rational n/d     *)
(* (d > 0), k = "nan" is a missing value, k = "inf" is +/- infinity (sign  *)
(* in n), k = "str" is text that does not parse as a number.               *)
(*                                                                         *)
(* Scope: the join keys of the two tables hold cells of the same type, a   *)
(* zim_AF column given directly holds numbers or nothing, and the          *)
(* annotation table has no column named zim_AF, impact_tier or like a max  *)
(* column.  pc = "failed" is a SystemExit raised by a schema check;        *)
(* pc = "crashed" is any other exception (a cohort frame with a repeated   *)
(* label reaching merge, the .str accessor on a column without text).      *)
(***************************************************************************)
EXTENDS Integers, Sequences, FiniteSets, TLC

----------------------------------------------------------------------------
(* Bounds of the model.                                                    *)

MaxAnnRows == 2
MaxZimRows == 2

----------------------------------------------------------------------------
(* Cells and float arithmetic as pandas / numpy perform it.                *)

Num(n, d) == [k |-> "num", n |-> n, d |-> d]
NaN == [k |-> "nan", n |-> 0, d |-> 1]
PosInf == [k |-> "inf", n |-> 1, d |-> 1]
NegInf == [k |-> "inf", n |-> -1, d |-> 1]
Str == [k |-> "str", n |-> 0, d |-> 1]
NA == "<NA>"
None == "<None>"

IsNa(v) == v.k = "nan"

\* pd.to_numeric(errors='coerce'): text that is no number becomes missing.
ToNumeric(v) == IF v.k = "str" THEN NaN ELSE v

\* a <= b on floats: false as soon as one side is NaN.
Leq(a, b) ==
    IF a.k = "nan" \/ b.k = "nan" THEN FALSE
    ELSE IF a.k = "inf" THEN (a.n < 0 \/ (b.k = "inf" /\ b.n > 0))
    ELSE IF b.k = "inf" THEN b.n > 0
    ELSE a.n * b.d <= b.n * a.d

\* a > b on floats: false as soon as one side is NaN.
Gt(a, b) ==
    IF a.k = "nan" \/ b.k = "nan" THEN FALSE ELSE ~Leq(a, b)

\* Series / Series on numeric dtypes: x/0 is +/-inf, 0/0 and NaN operands are NaN.
Div(a, b) ==
    IF a.k = "nan" \/ b.k = "nan" THEN NaN
    ELSE IF b.n = 0 THEN (IF a.n = 0 THEN NaN
                          ELSE IF a.n > 0 THEN PosInf ELSE NegInf)
    ELSE IF b.n > 0 THEN Num(a.n * b.d, a.d * b.n)
    ELSE Num(-(a.n * b.d), -(a.d * b.n))

\* Series.fillna(x): only missing values are replaced.
FillNa(v, x) == IF IsNa(v) THEN x ELSE v

----------------------------------------------------------------------------
(* Sequence helpers.                                                       *)

Range(s) == {s[i] : i \in DOMAIN s}

\* positions of label c in a column list, in order.
RECURSIVE Positions(_, _, _)
Positions(columns, c, i) ==
    IF i > Len(columns) THEN <<>>
    ELSE (IF columns[i] = c THEN <<i>> ELSE <<>>) \o Positions(columns, c, i + 1)

\* the position of the single column labelled c.
Loc(columns, c) == CHOOSE i \in DOMAIN columns : columns[i] = c

RECURSIVE Flatten(_)
Flatten(ss) == IF ss = <<>> THEN <<>> ELSE Head(ss) \o Flatten(Tail(ss))

----------------------------------------------------------------------------
(* Column names.  str.lower(), str.startswith('AF') and "'afr' in          *)
(* c.lower()" are tabulated over the labels the model draws headers from.  *)

Lower(c) ==
    CASE c \in {"Chr", "chr", "CHR"} -> "chr"
      [] c \in {"Start", "start"} -> "start"
      [] c \in {"Ref", "ref"} -> "ref"
      [] c \in {"Alt", "alt"} -> "alt"
      [] c \in {"zim_AF", "zim_af", "ZIM_AF"} -> "zim_af"
      [] c \in {"zim_AC", "zim_ac"} -> "zim_ac"
      [] c \in {"zim_AN", "zim_an"} -> "zim_an"
      [] c \in {"AF", "af"} -> "af"
      [] c \in {"AF_raw"} -> "af_raw"
      [] c \in {"AF_popmax"} -> "af_popmax"
      [] c \in {"AF_afr", "AF_AFR"} -> "af_afr"
      [] c \in {"gnomAD_AF_afr"} -> "gnomad_af_afr"
      [] c \in {"End"} -> "end"
      [] OTHER -> c

StartsWithAF(c) == c \in {"AF", "AF_raw", "AF_popmax", "AF_afr", "AF_AFR"}

ContainsAfr(l) == l \in {"af_afr", "gnomad_af_afr"}

----------------------------------------------------------------------------
(* load_zim_db                                                             *)

\* cols = {c.lower(): c for c in df.columns}: a later column overwrites an
\* earlier one with the same lower-cased name.
LowerCols(columns) ==
    [l \in {Lower(c) : c \in Range(columns)} |->
        columns[CHOOSE i \in DOMAIN columns :
                  /\ Lower(columns[i]) = l
                  /\ \A j \in DOMAIN columns : Lower(columns[j]) = l => j <= i]]

required == <<"chr", "start", "ref", "alt">>

\* the first required name absent from cols, or None.
ZimMissingRequired(columns) ==
    LET cols == LowerCols(columns)
        miss == {i \in DOMAIN required : required[i] \notin DOMAIN cols}
    IN  IF miss = {} THEN None
        ELSE required[CHOOSE i \in miss : \A j \in miss : i <= j]

\* whether the frequency can be had: zim_AF, or zim_AC together with zim_AN.
ZimHasFrequency(columns) ==
    LET cols == LowerCols(columns)
    IN  \/ "zim_af" \in DOMAIN cols
        \/ ("zim_ac" \in DOMAIN cols /\ "zim_an" \in DOMAIN cols)

\* df.rename(columns=mapping): every label that is a key is replaced.
Rename(columns, mapping) ==
    [i \in DOMAIN columns |->
        IF columns[i] \in DOMAIN mapping THEN mapping[columns[i]] ELSE columns[i]]

\* lines 32-48 on a frame that has a frequency: derive zim_AF as AC/AN from
\* the coerced count columns, or rename the frequency column to zim_AF.
ZimWithAF(df) ==
    LET cols == LowerCols(df.columns)
    IN  IF "zim_af" \notin DOMAIN cols
        THEN LET ac == Loc(df.columns, cols["zim_ac"])
                 an == Loc(df.columns, cols["zim_an"])
                 coerced(row) == [i \in DOMAIN row |->
                                    IF i \in {ac, an} THEN ToNumeric(row[i])
                                    ELSE row[i]]
             IN  [columns |-> Append(df.columns, "zim_AF"),
                  data |-> [r \in DOMAIN df.data |->
                              LET row == coerced(df.data[r])
                              IN  Append(row, Div(row[ac], row[an]))]]
        ELSE [columns |-> Rename(df.columns, (cols["zim_af"] :> "zim_AF")),
              data |-> df.data]

\* lines 51-56: the coordinate columns take ANNOVAR's spelling.
ZimStandardise(df, cols) ==
    [columns |-> Rename(df.columns,
                        (cols["chr"] :> "Chr") @@ (cols["start"] :> "Start")
                        @@ (cols["ref"] :> "Ref") @@ (cols["alt"] :> "Alt")),
     data |-> df.data]

\* df[labels]: every column carrying a requested label, in request order.
Select(df, labels) ==
    LET pos == Flatten([i \in DOMAIN labels |-> Positions(df.columns, labels[i], 1)])
    IN  [columns |-> [i \in DOMAIN pos |-> df.columns[pos[i]]],
         data |-> [r \in DOMAIN df.data |->
                     [i \in DOMAIN pos |-> df.data[r][pos[i]]]]]

ZimOutColumns == <<"Chr", "Start", "Ref", "Alt", "zim_AF">>

NoMsg == [text |-> None, named |-> None, lists_columns |-> FALSE, listed |-> <<>>]

\* the message of the SystemExit raised by load_zim_db, or NoMsg.
ZimError(df) ==
    IF ZimMissingRequired(df.columns) # None
    THEN [text |-> "Zimbabwe DB file must contain a column",
          named |-> ZimMissingRequired(df.columns),
          lists_columns |-> TRUE, listed |-> df.columns]
    ELSE IF ~ZimHasFrequency(df.columns)
    THEN [text |-> "Zimbabwe DB must have zim_AF or zim_AC + zim_AN",
          named |-> None, lists_columns |-> FALSE, listed |-> <<>>]
    ELSE NoMsg

\* the frame load_zim_db returns when it raises nothing.
load_zim_db(df) ==
    Select(ZimStandardise(ZimWithAF(df), LowerCols(df.columns)), ZimOutColumns)

----------------------------------------------------------------------------
(* _make_gnomad_max_col                                                    *)

\* df[name] = values: an existing column is overwritten, a new one appended.
Assign(df, name, values) ==
    IF name \in Range(df.columns)
    THEN [columns |-> df.columns,
          data |-> [r \in DOMAIN df.data |->
                      [i \in DOMAIN df.columns |->
                         IF df.columns[i] = name THEN values[r] ELSE df.data[r][i]]]]
    ELSE [columns |-> Append(df.columns, name),
          data |-> [r \in DOMAIN df.data |-> Append(df.data[r], values[r])]]

\* the column labelled name, as a sequence of cells.
Column(df, name) == [r \in DOMAIN df.data |-> df.data[r][Loc(df.columns, name)]]

\* variant of RowMax: a row with no value present gets 0 instead of missing.
RowMaxZeroFill(cells) ==
    LET present == {i \in DOMAIN cells : ~IsNa(cells[i])}
    IN  IF present = {} THEN Num(0, 1)
        ELSE cells[CHOOSE i \in present : \A j \in present : Leq(cells[j], cells[i])]

\* max(axis=1, skipna=True) of one row: the largest non-missing cell, NaN if none.
RowMax(cells) ==
    LET present == {i \in DOMAIN cells : ~IsNa(cells[i])}
    IN  IF present = {} THEN NaN
        ELSE cells[CHOOSE i \in present : \A j \in present : Leq(cells[j], cells[i])]

\* lines 70-71: every candidate column is coerced to numeric in place.
CoerceCandidates(df, candidates) ==
    [columns |-> df.columns,
     data |-> [r \in DOMAIN df.data |->
                 [i \in DOMAIN df.columns |->
                    IF df.columns[i] \in Range(candidates)
                    THEN ToNumeric(df.data[r][i]) ELSE df.data[r][i]]]]

\* returns the frame as the call leaves it and the name it returns.
make_gnomad_max_col(df, candidates, new_name) ==
    IF candidates = <<>> THEN [df |-> df, name |-> None]
    ELSE LET num == CoerceCandidates(df, candidates)
             mx == [r \in DOMAIN num.data |->
                      RowMax([i \in DOMAIN candidates |->
                                num.data[r][Loc(num.columns, candidates[i])]])]
         IN  [df |-> Assign(num, new_name, mx), name |-> new_name]

----------------------------------------------------------------------------
(* prioritise: helpers                                                     *)

AnnRequired == <<"Chr", "Start", "End", "Ref", "Alt">>

\* variant of AnnMissingRequired: the loop keeps going and reports the last
\* absent column instead of stopping at the first.
AnnMissingRequiredLast(columns) ==
    LET miss == {i \in DOMAIN AnnRequired : AnnRequired[i] \notin Range(columns)}
    IN  IF miss = {} THEN None
        ELSE AnnRequired[CHOOSE i \in miss : \A j \in miss : j <= i]

\* lines 87-89: the first required column absent from the annotation table.
AnnMissingRequired(columns) ==
    LET miss == {i \in DOMAIN AnnRequired : AnnRequired[i] \notin Range(columns)}
    IN  IF miss = {} THEN None
        ELSE AnnRequired[CHOOSE i \in miss : \A j \in miss : i <= j]

AnnError(columns) ==
    [text |-> "Missing required column in multianno file",
     named |-> AnnMissingRequired(columns),
     lists_columns |-> FALSE, listed |-> <<>>]

RECURSIVE SelectSeq2(_, _)
SelectSeq2(s, keep) ==
    IF s = <<>> THEN <<>>
    ELSE (IF Head(s) \in keep THEN <<Head(s)>> ELSE <<>>) \o SelectSeq2(Tail(s), keep)

\* lines 95-98.
gnomad_all_candidates(columns) ==
    SelectSeq2(columns, {c \in Range(columns) :
                           StartsWithAF(c) /\ ~ContainsAfr(Lower(c))})

\* lines 99-102.
gnomad_afr_candidates(columns) ==
    SelectSeq2(columns, {c \in Range(columns) :
                           ContainsAfr(Lower(c)) /\ StartsWithAF(c)})

MergeOn == <<"Chr", "Start", "Ref", "Alt">>

KeyOf(df, row) == [i \in DOMAIN MergeOn |-> row[Loc(df.columns, MergeOn[i])]]

IsUnique(columns) == \A i, j \in DOMAIN columns : columns[i] = columns[j] => i = j

\* ann.merge(zim, on=MergeOn, how='left'): each left row in order, once per
\* matching right row in right order, or once with a missing zim_AF.
LeftJoin(left, right) ==
    LET af == Loc(right.columns, "zim_AF")
        matches(row) == SelectSeq(right.data,
                                  LAMBDA z : KeyOf(right, z) = KeyOf(left, row))
        joined(row) == IF matches(row) = <<>> THEN <<Append(row, NaN)>>
                       ELSE [m \in DOMAIN matches(row) |->
                               Append(row, matches(row)[m][af])]
    IN  [columns |-> Append(left.columns, "zim_AF"),
         data |-> Flatten([r \in DOMAIN left.data |-> joined(left.data[r])])]

\* line 124.
FillZimAF(df) ==
    Assign(df, "zim_AF", [r \in DOMAIN df.data |-> FillNa(Column(df, "zim_AF")[r], Num(0, 1))])

func_col == "Func.refGene"
exonic_func_col == "ExonicFunc.refGene"

lof_terms == {"frameshift_deletion", "frameshift_insertion", "frameshift_variant",
              "stopgain", "stoploss", "splicing", "splice_site"}
missense_terms == {"nonsynonymous SNV", "missense_variant"}
synonymous_terms == {"synonymous SNV", "synonymous_variant"}

\* str.contains('splicing', na=False), tabulated over the values the model draws.
ContainsSplicing(f) == f \in {"splicing", "exonic;splicing", "ncRNA_splicing"}

cond_lof(exonic, func) == exonic \in lof_terms \/ ContainsSplicing(func)
cond_missense(exonic) == exonic \in missense_terms
cond_synonymous(exonic) == exonic \in synonymous_terms

\* variant of ImpactTier: the assignments in the opposite order, LoF first.
ImpactTierLofFirst(exonic, func) ==
    LET t0 == "other"
        t1 == IF cond_lof(exonic, func) THEN "LoF" ELSE t0
        t2 == IF cond_missense(exonic) THEN "missense" ELSE t1
        t3 == IF cond_synonymous(exonic) THEN "synonymous" ELSE t2
    IN  t3

\* lines 149-152: four assignments, each overwriting the one before.
ImpactTier(exonic, func) ==
    LET t0 == "other"
        t1 == IF cond_synonymous(exonic) THEN "synonymous" ELSE t0
        t2 == IF cond_missense(exonic) THEN "missense" ELSE t1
        t3 == IF cond_lof(exonic, func) THEN "LoF" ELSE t2
    IN  t3

HasConsequenceCols(columns) ==
    func_col \in Range(columns) /\ exonic_func_col \in Range(columns)

\* Series.str on a column read with no text in it (dtype float64) raises.
StrAccessorRaises(df) ==
    /\ df.data # <<>>
    /\ \A r \in DOMAIN df.data : Column(df, func_col)[r] = NA

\* lines 130-152.
Classify(df) ==
    IF ~HasConsequenceCols(df.columns)
    THEN Assign(df, "impact_tier", [r \in DOMAIN df.data |-> "unknown"])
    ELSE Assign(df, "impact_tier",
                [r \in DOMAIN df.data |->
                   ImpactTier(Column(df, exonic_func_col)[r], Column(df, func_col)[r])])

\* variant of FreqMask: a missing max value fails the frequency filter.
FreqMaskNaFails(df, r, g_all, g_afr, max_af, max_afr_af) ==
    /\ g_all # None => Leq(Column(df, g_all)[r], max_af)
    /\ g_afr # None => Leq(Column(df, g_afr)[r], max_afr_af)

\* lines 155-163, for row r of df.
FreqMask(df, r, g_all, g_afr, max_af, max_afr_af) ==
    /\ g_all # None =>
         (IsNa(Column(df, g_all)[r]) \/ Leq(Column(df, g_all)[r], max_af))
    /\ g_afr # None =>
         (IsNa(Column(df, g_afr)[r]) \/ Leq(Column(df, g_afr)[r], max_afr_af))

\* line 166.
ZimMask(df, r, max_zim) == Leq(Column(df, "zim_AF")[r], max_zim)

\* variant of ImpactMask: rows of unknown impact are kept too.
ImpactMaskKeepUnknown(df, r) ==
    Column(df, "impact_tier")[r] \in {"LoF", "missense", "unknown"}

\* line 169.
ImpactMask(df, r) == Column(df, "impact_tier")[r] \in {"LoF", "missense"}

\* variant of FinalMask: the cohort mask is left out of the conjunction.
FinalMaskNoCohort(df, r, g_all, g_afr, max_af, max_afr_af, max_zim) ==
    /\ FreqMask(df, r, g_all, g_afr, max_af, max_afr_af)
    /\ ImpactMask(df, r)

\* line 171.
FinalMask(df, r, g_all, g_afr, max_af, max_afr_af, max_zim) ==
    /\ FreqMask(df, r, g_all, g_afr, max_af, max_afr_af)
    /\ ZimMask(df, r, max_zim)
    /\ ImpactMask(df, r)

FlagCut == Num(1, 100)

\* the indices of the rows kept, in order.
RECURSIVE KeptFrom(_, _, _, _, _, _, _)
KeptFrom(df, r, g_all, g_afr, max_af, max_afr_af, max_zim) ==
    IF r > Len(df.data) THEN <<>>
    ELSE (IF FinalMask(df, r, g_all, g_afr, max_af, max_afr_af, max_zim)
          THEN <<r>> ELSE <<>>)
         \o KeptFrom(df, r + 1, g_all, g_afr, max_af, max_afr_af, max_zim)

\* lines 173-181: the kept rows, then the flag columns.
Filtered(df, g_all, g_afr, max_af, max_afr_af, max_zim) ==
    LET kept == KeptFrom(df, 1, g_all, g_afr, max_af, max_afr_af, max_zim)
        base == [columns |-> df.columns,
                 data |-> [i \in DOMAIN kept |-> df.data[kept[i]]]]
        f1 == Assign(base, "flag_high_zim_af",
                     [i \in DOMAIN kept |-> Gt(Column(df, "zim_AF")[kept[i]], FlagCut)])
        f2 == IF g_all = None THEN f1
              ELSE Assign(f1, "flag_common_gnomad",
                     [i \in DOMAIN kept |-> Gt(Column(df, g_all)[kept[i]], FlagCut)])
        f3 == IF g_afr = None THEN f2
              ELSE Assign(f2, "flag_common_gnomad_afr",
                     [i \in DOMAIN kept |-> Gt(Column(df, g_afr)[kept[i]], FlagCut)])
    IN  [df |-> f3, index |-> kept]

----------------------------------------------------------------------------
(* prioritise as a state machine: one action per step of the function.     *)

VARIABLES
    pc,                 \* the step prioritise has reached
    ann_file,           \* the annotation file's table, as read at line 83
    ann,                \* the annotation frame the function works on
    zim_file,           \* the cohort file's table, as read at line 20
    max_gnomad_af, max_gnomad_afr_af, max_zim_af,   \* the thresholds
    gnomad_all, gnomad_afr,     \* names returned by _make_gnomad_max_col
    zim,                \* the frame load_zim_db returned
    merged,             \* the joined frame
    filtered,           \* the filtered frame, with the index of the rows kept
    out_all, out_filtered,      \* the two output files
    msg                 \* the message of the SystemExit raised, if any

vars == <<pc, ann_file, ann, zim_file, max_gnomad_af, max_gnomad_afr_af, max_zim_af,
          gnomad_all, gnomad_afr, zim, merged, filtered, out_all, out_filtered, msg>>

inputs == <<ann_file, zim_file, max_gnomad_af, max_gnomad_afr_af, max_zim_af>>

EmptyFrame == [columns |-> <<>>, data |-> <<>>]
NotWritten == [written |-> FALSE, columns |-> <<>>, data |-> <<>>]
File(df) == [written |-> TRUE, columns |-> df.columns, data |-> df.data]

\* lines 86-89.
CheckAnnColumns ==
    /\ pc = "start"
    /\ IF AnnMissingRequired(ann.columns) # None
       THEN pc' = "failed" /\ msg' = AnnError(ann.columns)
       ELSE pc' = "checked" /\ msg' = msg
    /\ UNCHANGED <<ann, inputs, gnomad_all, gnomad_afr, zim, merged, filtered,
                   out_all, out_filtered>>

\* lines 95-105.
MakeMaxCols ==
    /\ pc = "checked"
    /\ LET c_all == gnomad_all_candidates(ann.columns)
           c_afr == gnomad_afr_candidates(ann.columns)
           r1 == make_gnomad_max_col(ann, c_all, "gnomad_AF_max")
           r2 == make_gnomad_max_col(r1.df, c_afr, "gnomad_AFR_AF_max")
       IN  /\ ann' = r2.df
           /\ gnomad_all' = r1.name
           /\ gnomad_afr' = r2.name
    /\ pc' = "maxcols"
    /\ UNCHANGED <<inputs, zim, merged, filtered, out_all, out_filtered, msg>>

\* variant of LoadZim: the annotated table is written before the cohort
\* table is loaded and validated.
LoadZimAfterWrite ==
    /\ pc = "maxcols"
    /\ IF ZimError(zim_file) # NoMsg
       THEN pc' = "failed" /\ msg' = ZimError(zim_file) /\ zim' = zim
       ELSE pc' = "loaded" /\ msg' = msg /\ zim' = load_zim_db(zim_file)
    /\ out_all' = File(ann)
    /\ UNCHANGED <<ann, inputs, gnomad_all, gnomad_afr, merged, filtered,
                   out_filtered>>

\* line 113.
LoadZim ==
    /\ pc = "maxcols"
    /\ IF ZimError(zim_file) # NoMsg
       THEN pc' = "failed" /\ msg' = ZimError(zim_file) /\ zim' = zim
       ELSE pc' = "loaded" /\ msg' = msg /\ zim' = load_zim_db(zim_file)
    /\ UNCHANGED <<ann, inputs, gnomad_all, gnomad_afr, merged, filtered,
                   out_all, out_filtered>>

\* lines 117-124.  A cohort frame with a repeated label cannot be joined.
Merge ==
    /\ pc = "loaded"
    /\ IF IsUnique(zim.columns)
       THEN pc' = "merged" /\ merged' = FillZimAF(LeftJoin(ann, zim))
       ELSE pc' = "crashed" /\ merged' = merged
    /\ UNCHANGED <<ann, inputs, gnomad_all, gnomad_afr, zim, filtered,
                   out_all, out_filtered, msg>>

\* lines 127-152.
ClassifyImpact ==
    /\ pc = "merged"
    /\ IF HasConsequenceCols(merged.columns) /\ StrAccessorRaises(merged)
       THEN pc' = "crashed" /\ merged' = merged
       ELSE pc' = "classified" /\ merged' = Classify(merged)
    /\ UNCHANGED <<ann, inputs, gnomad_all, gnomad_afr, zim, filtered,
                   out_all, out_filtered, msg>>

\* lines 155-181.
Filter ==
    /\ pc = "classified"
    /\ LET f == Filtered(merged, gnomad_all, gnomad_afr,
                         max_gnomad_af, max_gnomad_afr_af, max_zim_af)
       IN  filtered' = [columns |-> f.df.columns, data |-> f.df.data,
                        index |-> f.index]
    /\ pc' = "filtered"
    /\ UNCHANGED <<ann, inputs, gnomad_all, gnomad_afr, zim, merged,
                   out_all, out_filtered, msg>>

\* line 187.
WriteAnnotated ==
    /\ pc = "filtered"
    /\ out_all' = File(merged)
    /\ pc' = "wrote_all"
    /\ UNCHANGED <<ann, inputs, gnomad_all, gnomad_afr, zim, merged, filtered,
                   out_filtered, msg>>

\* line 188.
WritePrioritised ==
    /\ pc = "wrote_all"
    /\ out_filtered' = File(filtered)
    /\ pc' = "done"
    /\ UNCHANGED <<ann, inputs, gnomad_all, gnomad_afr, zim, merged, filtered,
                   out_all, msg>>

Next ==
    \/ CheckAnnColumns
    \/ MakeMaxCols
    \/ LoadZim
    \/ Merge
    \/ ClassifyImpact
    \/ Filter
    \/ WriteAnnotated
    \/ WritePrioritised

----------------------------------------------------------------------------
(* Inputs.                                                                 *)

\* every row over the given columns, each cell drawn from its column's values.
RECURSIVE RowsOver(_, _)
RowsOver(columns, dom) ==
    IF columns = <<>> THEN {<<>>}
    ELSE {<<v>> \o r : v \in dom[Lower(Head(columns))], r \in RowsOver(Tail(columns), dom)}

RECURSIVE SeqsUpTo(_, _)
SeqsUpTo(S, n) ==
    IF n = 0 THEN {<<>>}
    ELSE SeqsUpTo(S, n - 1) \cup {Append(s, x) : s \in {t \in SeqsUpTo(S, n - 1) : Len(t) = n - 1}, x \in S}

Frames(headers, dom, n) ==
    UNION {{[columns |-> h, data |-> d] : d \in SeqsUpTo(RowsOver(h, dom), n)} : h \in headers}

\* the state after argument parsing, before line 83's table is looked at.
InitWith(annFrames, zimFrames, cuts) ==
    /\ pc = "start"
    /\ ann_file \in annFrames
    /\ ann = ann_file
    /\ zim_file \in zimFrames
    /\ \E c \in cuts :
          /\ max_gnomad_af = c[1]
          /\ max_gnomad_afr_af = c[2]
          /\ max_zim_af = c[3]
    /\ gnomad_all = None
    /\ gnomad_afr = None
    /\ zim = EmptyFrame
    /\ merged = EmptyFrame
    /\ filtered = [columns |-> <<>>, data |-> <<>>, index |-> <<>>]
    /\ out_all = NotWritten
    /\ out_filtered = NotWritten
    /\ msg = NoMsg

\* one value per column: the end-to-end scenario's row and a cohort record.
BaseDom ==
    [c \in {"chr"} |-> {"1"}] @@ [c \in {"start", "end"} |-> {100}]
    @@ [c \in {"ref"} |-> {"A"}] @@ [c \in {"alt"} |-> {"T"}]
    @@ [c \in {func_col} |-> {"exonic"}] @@ [c \in {exonic_func_col} |-> {"stopgain"}]
    @@ [c \in {"af", "af_raw", "af_popmax"} |-> {Num(1, 1000)}]
    @@ [c \in {"af_afr", "gnomad_af_afr"} |-> {Num(5, 10000)}]
    @@ [c \in {"zim_af"} |-> {Num(1, 10)}]
    @@ [c \in {"zim_ac"} |-> {Num(1, 1)}] @@ [c \in {"zim_an"} |-> {Num(10, 1)}]

IdCols == <<"Chr", "Start", "End", "Ref", "Alt">>
ConsequenceCols == <<func_col, exonic_func_col>>
StdZimHeader == <<"Chr", "Start", "Ref", "Alt", "zim_AF">>

\* s without its i-th element.
Drop(s, i) == [j \in 1..(Len(s) - 1) |-> IF j < i THEN s[j] ELSE s[j + 1]]

\* the default thresholds 0.01, 0.01, 0.05.
DefaultCuts == {<<Num(1, 100), Num(1, 100), Num(5, 100)>>}

StdAnnFrames == Frames({IdCols \o ConsequenceCols \o <<"AF", "AF_afr">>}, BaseDom, MaxAnnRows)
StdZimFrames == Frames({StdZimHeader}, BaseDom, MaxZimRows)

(* Spec: the schemas vary.  Annotation headers with identity columns left   *)
(* out, cohort headers with identity or frequency columns left out or       *)
(* spelled in another case.                                                 *)
SchemaAnnHeaders ==
    {id \o cq \o af :
        id \in {IdCols} \cup {Drop(IdCols, i) : i \in DOMAIN IdCols}
               \cup {<<"Start", "Ref">>},
        cq \in {ConsequenceCols, <<>>},
        af \in {<<>>, <<"AF", "AF_afr">>}}

SchemaZimHeaders ==
    {id \o fq :
        id \in {<<"Chr", "Start", "Ref", "Alt">>, <<"chr", "start", "ref", "alt">>,
                <<"Start", "Ref", "Alt">>, <<"Chr", "Ref", "Alt">>,
                <<"Chr", "Start", "Alt">>, <<"Chr", "Start", "Ref">>, <<"Alt">>},
        fq \in {<<"zim_AF">>, <<"zim_af">>, <<"zim_AC", "zim_AN">>,
                <<"zim_AC">>, <<"zim_AN">>, <<"extra">>}}

Init ==
    InitWith(Frames(SchemaAnnHeaders, BaseDom, MaxAnnRows),
             Frames(SchemaZimHeaders, BaseDom @@ [c \in {"extra"} |-> {"x"}], MaxZimRows),
             DefaultCuts)

Spec == Init /\ [][Next]_vars

----------------------------------------------------------------------------
(* Properties.                                                             *)

AnnSchemaError == \E c \in Range(AnnRequired) : c \notin Range(ann.columns)

ZimSchemaError ==
    \/ \E l \in Range(required) : \A c \in Range(zim_file.columns) : Lower(c) # l
    \/ /\ \A c \in Range(zim_file.columns) : Lower(c) # "zim_af"
       /\ \/ \A c \in Range(zim_file.columns) : Lower(c) # "zim_ac"
          \/ \A c \in Range(zim_file.columns) : Lower(c) # "zim_an"

\* C3: in a run whose annotation table lacks an identity column, or whose
\* cohort table lacks an identity column or lacks both zim_AF and the
\* zim_AC + zim_AN pair, neither output file is ever written, and once past
\* the failing check the run has terminated with SystemExit.
C3_NoOutputOnSchemaError ==
    (AnnSchemaError \/ ZimSchemaError) =>
        /\ ~out_all.written
        /\ ~out_filtered.written
        /\ pc \in {"start", "checked", "maxcols", "failed"}
        /\ (AnnSchemaError /\ pc # "start" => pc = "failed")

\* a run that passed the annotation check and failed in load_zim_db.
C3_Witness ==
    /\ pc = "failed"
    /\ ~AnnSchemaError
    /\ ZimSchemaError
    /\ msg.text # "Missing required column in multianno file"

\* C4 as claimed: when an identity column is absent from the annotation
\* table the run fails with a message that names the missing column and
\* lists the columns present in the annotation table.
C4_NamesAndLists ==
    (AnnSchemaError /\ pc # "start") =>
        /\ pc = "failed"
        /\ msg.named \in Range(AnnRequired) \ Range(ann.columns)
        /\ msg.lists_columns
        /\ msg.listed = ann.columns

\* C4 amended: when an identity column is absent from the annotation table
\* the run fails with a message that names the first absent column, in the
\* order Chr, Start, End, Ref, Alt, and lists no columns.
C4_NamesFirstMissingOnly ==
    (AnnSchemaError /\ pc # "start") =>
        /\ pc = "failed"
        /\ msg.text = "Missing required column in multianno file"
        /\ \E i \in DOMAIN AnnRequired :
              /\ msg.named = AnnRequired[i]
              /\ AnnRequired[i] \notin Range(ann.columns)
              /\ \A j \in 1..(i - 1) : AnnRequired[j] \in Range(ann.columns)
        /\ ~msg.lists_columns
        /\ msg.listed = <<>>

\* an annotation table lacking several identity columns has been rejected.
C4_Witness ==
    /\ pc = "failed"
    /\ Cardinality(Range(AnnRequired) \ Range(ann.columns)) > 1
    /\ msg.named = "Chr"

(* SpecLoad: the cohort file varies.  Headers spell the identity and        *)
(* frequency columns in several cases, some of them twice; count and        *)
(* number cells are zero, missing or text.                                  *)
LoadCaseHeaders ==
    {chr \o start \o rest \o fq :
        chr \in {<<"Chr">>, <<"chr">>, <<"CHR">>, <<"chr", "Chr">>,
                 <<"Chr", "chr">>, <<"CHR", "chr">>},
        start \in {<<"Start">>, <<"start">>, <<"Start", "start">>},
        rest \in {<<"Ref", "Alt">>, <<"ref", "alt">>},
        fq \in {<<"zim_AF">>, <<"zim_af">>, <<"zim_AF", "ZIM_AF">>,
                <<"ZIM_AF", "zim_AF">>, <<"zim_AC", "zim_AN">>,
                <<"zim_ac", "zim_an">>, <<"zim_AF", "zim_AC", "zim_AN">>,
                <<"zim_AC">>, <<>>}}

CountDom ==
    [c \in {"zim_ac"} |-> {Num(0, 1), Num(5, 1), NaN, Str}]
    @@ [c \in {"zim_an"} |-> {Num(0, 1), Num(10, 1), NaN, Str}]
    @@ BaseDom

InitLoad ==
    InitWith(StdAnnFrames,
             Frames(LoadCaseHeaders, BaseDom, MaxZimRows)
                 \cup Frames({<<"Chr", "Start", "Ref", "Alt", "zim_AC", "zim_AN">>},
                             CountDom, MaxZimRows),
             DefaultCuts)

SpecLoad == InitLoad /\ [][Next]_vars

\* C5 as claimed: whenever load_zim_db returns, the frame it returns has
\* exactly the five columns Chr, Start, Ref, Alt, zim_AF.
C5_FiveColumns ==
    pc = "loaded" => zim.columns = ZimOutColumns

\* the cohort file's header has no zim_AF in any case: zim_AF is AC / AN.
ZimDerived == \A c \in Range(zim_file.columns) : Lower(c) # "zim_af"

\* the cell of cohort file row r under the column cols[l] picks.
ZimFileCell(r, l) ==
    zim_file.data[r][Loc(zim_file.columns, LowerCols(zim_file.columns)[l])]

\* the zim_AF of row r of the frame load_zim_db returned.
ZimAFOf(r) == zim.data[r][Len(zim.columns)]

\* C6 as claimed: when zim_AF is derived from the count and number columns,
\* the load does not fail, and a record whose number is zero, missing or
\* text, or whose count is text, gets a missing zim_AF.
C6_MissingOnBadDenominator ==
    (ZimDerived /\ ~ZimSchemaError /\ pc \notin {"start", "checked", "maxcols"}) =>
        /\ pc # "failed"
        /\ \A r \in DOMAIN zim_file.data :
              (\/ ZimFileCell(r, "zim_an").k \in {"nan", "str"}
               \/ ZimFileCell(r, "zim_an") = Num(0, 1)
               \/ ZimFileCell(r, "zim_ac").k = "str")
              => IsNa(ZimAFOf(r))

(* SpecJoin: the keys vary.  Annotation rows and cohort records at two      *)
(* positions, cohort records with a known or a missing frequency, the same  *)
(* key possibly twice in the cohort file.                                   *)
JoinDom ==
    [c \in {"start"} |-> {100, 200}] @@ [c \in {"zim_af"} |-> {Num(1, 10), NaN}]
    @@ BaseDom

InitJoin ==
    InitWith(Frames({IdCols \o ConsequenceCols \o <<"AF", "AF_afr">>}, JoinDom, MaxAnnRows),
             Frames({StdZimHeader}, JoinDom, MaxZimRows),
             DefaultCuts \cup {<<Num(1, 100), Num(1, 100), Num(1, 2)>>})

SpecJoin == InitJoin /\ [][Next]_vars

\* every row of table f has zim_AF 0.0 when no cohort record has its key, and
\* the frequency of a cohort record with its key otherwise.
CarriesCohortFrequency(f) ==
    \A r \in DOMAIN f.data :
        LET recs == {z \in DOMAIN zim.data : KeyOf(zim, zim.data[z]) = KeyOf(f, f.data[r])}
            v == f.data[r][Loc(f.columns, "zim_AF")]
        IN  IF recs = {} THEN v = Num(0, 1)
            ELSE \E z \in recs : v = zim.data[z][Loc(zim.columns, "zim_AF")]

\* C2 as claimed: in both output tables a row that matches no cohort record
\* has zim_AF 0.0 and a row that matches one carries that record's frequency.
C2_JoinedFrequency ==
    pc = "done" => CarriesCohortFrequency(out_all) /\ CarriesCohortFrequency(out_filtered)

(* SpecMax: the frequency columns vary.  Zero to three global candidates,   *)
(* an AFR candidate, a column that is no candidate; cells hold numbers,     *)
(* nothing, or text.                                                        *)
MaxAfHeaders ==
    {<<>>, <<"AF">>, <<"AF", "AF_raw">>, <<"AF", "AF_raw", "AF_popmax">>,
     <<"AF_afr">>, <<"AF", "AF_afr">>, <<"gnomAD_AF_afr">>, <<"af">>}

MaxDom ==
    [c \in {"af"} |-> {Num(1, 1000), Str, NaN}]
    @@ [c \in {"af_raw"} |-> {NaN, Num(5, 1000)}]
    @@ [c \in {"af_popmax"} |-> {Num(2, 100), NaN}]
    @@ [c \in {"af_afr"} |-> {Num(5, 10000), Num(3, 100), NaN, Str}]
    @@ BaseDom

InitMax ==
    InitWith(Frames({IdCols \o ConsequenceCols \o af : af \in MaxAfHeaders}, MaxDom, MaxAnnRows),
             StdZimFrames, DefaultCuts)

SpecMax == InitMax /\ [][Next]_vars

\* the annotation file's columns whose name starts with AF, split by whether
\* the lower-cased name mentions afr.
FileCandidates(afr) ==
    {c \in Range(ann_file.columns) : StartsWithAF(c) /\ (ContainsAfr(Lower(c)) <=> afr)}

\* the numbers (text and empty cells left out) row r of the file holds under cs.
FileNumbers(r, cs) ==
    {ann_file.data[r][Loc(ann_file.columns, c)] : c \in cs} \ {NaN, Str}

\* name is the row-wise maximum over the file's columns cs, if there are any:
\* returned and created when cs is not empty, neither when it is.
IsMaxColumn(name, returned, cs) ==
    IF cs = {}
    THEN returned = None /\ name \notin Range(ann.columns)
    ELSE /\ returned = name
         /\ Len(SelectSeq(ann.columns, LAMBDA c : c = name)) = 1
         /\ Len(ann.data) = Len(ann_file.data)
         /\ \A r \in DOMAIN ann.data :
               LET v == Column(ann, name)[r]
               IN  IF FileNumbers(r, cs) = {} THEN v = NaN
                   ELSE /\ v \in FileNumbers(r, cs)
                        /\ \A x \in FileNumbers(r, cs) : Leq(x, v)

\* C9: once the two calls of _make_gnomad_max_col have returned, each max
\* column holds per row the largest number among the row's candidate cells
\* (text counting as missing) and a missing value when the row has none; with
\* no candidates the call returns None and creates no column.
C9_RowMax ==
    pc \notin {"start", "checked", "failed"} =>
        /\ IsMaxColumn("gnomad_AF_max", gnomad_all, FileCandidates(FALSE))
        /\ IsMaxColumn("gnomad_AFR_AF_max", gnomad_afr, FileCandidates(TRUE))

\* a row with candidates 0.001, missing, 0.02 got 0.02, a row with nothing but
\* missing and text got missing, and the AFR column was not created.
C9_Witness ==
    /\ pc = "maxcols"
    /\ Len(ann.data) = 2
    /\ gnomad_afr = None
    /\ FileNumbers(1, FileCandidates(FALSE)) = {Num(1, 1000), Num(2, 100)}
    /\ Cardinality(FileCandidates(FALSE)) = 3
    /\ Column(ann, "gnomad_AF_max")[1] = Num(2, 100)
    /\ FileNumbers(2, FileCandidates(FALSE)) = {}
    /\ Column(ann, "gnomad_AF_max")[2] = NaN

(* SpecImpact: the consequence annotations vary; the cohort file is empty.  *)
ImpactDom ==
    [c \in {func_col} |-> {"exonic", "splicing", "exonic;splicing", NA}]
    @@ [c \in {exonic_func_col} |->
          {"stopgain", "nonsynonymous SNV", "synonymous SNV", "unknown", NA}]
    @@ BaseDom

InitImpact ==
    InitWith(Frames({IdCols \o cq \o <<"AF">> :
                        cq \in {ConsequenceCols, <<exonic_func_col, func_col>>,
                                <<func_col>>, <<>>}},
                    ImpactDom, MaxAnnRows),
             {[columns |-> StdZimHeader, data |-> <<>>]},
             DefaultCuts)

SpecImpact == InitImpact /\ [][Next]_vars

Classified == pc \in {"classified", "filtered", "wrote_all", "done"}

BothConsequenceCols ==
    func_col \in Range(ann_file.columns) /\ exonic_func_col \in Range(ann_file.columns)

\* C8: with both consequence columns present, after classification a row is
\* LoF when its exonic function is a LoF term or its functional region
\* contains 'splicing', whatever else it matches; else missense on a missense
\* term; else synonymous on a synonymous term; else other.  A stopgain row is
\* LoF.
C8_ImpactPrecedence ==
    (Classified /\ BothConsequenceCols) =>
        \A r \in DOMAIN merged.data :
            LET e == Column(merged, exonic_func_col)[r]
                f == Column(merged, func_col)[r]
                t == Column(merged, "impact_tier")[r]
                lof == e \in {"frameshift_deletion", "frameshift_insertion",
                              "frameshift_variant", "stopgain", "stoploss",
                              "splicing", "splice_site"}
                       \/ f \in {"splicing", "exonic;splicing"}
            IN  /\ t = IF lof THEN "LoF"
                       ELSE IF e \in {"nonsynonymous SNV", "missense_variant"} THEN "missense"
                       ELSE IF e \in {"synonymous SNV", "synonymous_variant"} THEN "synonymous"
                       ELSE "other"
                /\ e = "stopgain" => t = "LoF"

\* a missense row in a splicing region and a synonymous row in a splicing
\* region, both classified LoF.
C8_Witness ==
    /\ Classified /\ BothConsequenceCols
    /\ Len(merged.data) = 2
    /\ Column(merged, exonic_func_col)[1] = "nonsynonymous SNV"
    /\ Column(merged, func_col)[1] = "splicing"
    /\ Column(merged, "impact_tier")[1] = "LoF"
    /\ Column(merged, exonic_func_col)[2] = "synonymous SNV"
    /\ Column(merged, func_col)[2] = "exonic;splicing"
    /\ Column(merged, "impact_tier")[2] = "LoF"

(* SpecFreq: frequencies and thresholds vary.  Max columns present or not,  *)
(* population frequencies below and above the thresholds or missing, the    *)
(* variant absent from the cohort, present once or present twice,           *)
(* consequence columns present or not.                                      *)
FreqAnnHeaders ==
    {IdCols \o ConsequenceCols \o af :
        af \in {<<>>, <<"AF">>, <<"AF_afr">>, <<"AF", "AF_afr">>, <<"gnomAD_AF_afr">>}}
    \cup {IdCols \o cq \o af :
            cq \in {<<>>, <<func_col>>}, af \in {<<>>, <<"AF", "AF_afr">>}}
    \cup {IdCols \o <<exonic_func_col>>}

FreqDom ==
    [c \in {"af"} |-> {Num(1, 20), NaN}]
    @@ [c \in {"af_afr"} |-> {Num(1, 1000), Num(1, 20)}]
    @@ [c \in {"gnomad_af_afr"} |-> {Num(1, 2)}]
    @@ [c \in {exonic_func_col} |-> {"stopgain", "synonymous SNV"}]
    @@ [c \in {"zim_af"} |-> {Num(1, 100), Num(1, 10)}]
    @@ BaseDom

InitFreq ==
    InitWith(Frames(FreqAnnHeaders, FreqDom, MaxAnnRows),
             Frames({StdZimHeader}, FreqDom, MaxZimRows),
             DefaultCuts \cup {<<Num(1, 10), Num(1, 2000), Num(5, 1000)>>})

SpecFreq == InitFreq /\ [][Next]_vars

FilterDone == pc \in {"filtered", "wrote_all", "done"}

\* row r of the joined table is in the filtered frame.
Kept(r) == r \in Range(filtered.index)

\* the three predicates of row r of the joined table, read off the table.
FreqCond(r) ==
    /\ "gnomad_AF_max" \in Range(merged.columns) =>
          \/ Column(merged, "gnomad_AF_max")[r] = NaN
          \/ Leq(Column(merged, "gnomad_AF_max")[r], max_gnomad_af)
    /\ "gnomad_AFR_AF_max" \in Range(merged.columns) =>
          \/ Column(merged, "gnomad_AFR_AF_max")[r] = NaN
          \/ Leq(Column(merged, "gnomad_AFR_AF_max")[r], max_gnomad_afr_af)

CohortCond(r) == Leq(Column(merged, "zim_AF")[r], max_zim_af)

ImpactCond(r) == Column(merged, "impact_tier")[r] \in {"LoF", "missense"}

\* the rows of table f, cut to the joined table's columns, are exactly the
\* kept rows of the joined table, in order.
HoldsKeptRows(f) ==
    /\ Len(f.data) = Len(filtered.index)
    /\ \A i, j \in DOMAIN filtered.index : i < j => filtered.index[i] < filtered.index[j]
    /\ \A i \in DOMAIN f.data :
          SubSeq(f.data[i], 1, Len(merged.columns)) = merged.data[filtered.index[i]]

C7_FrequencyPredicate ==
    pc \in {"classified", "filtered", "wrote_all", "done"} =>
        /\ ("gnomad_AF_max" \in Range(merged.columns)) <=> (FileCandidates(FALSE) # {})
        /\ ("gnomad_AFR_AF_max" \in Range(merged.columns)) <=> (FileCandidates(TRUE) # {})
        /\ \A r \in DOMAIN merged.data :
              /\ FreqMask(merged, r, gnomad_all, gnomad_afr,
                          max_gnomad_af, max_gnomad_afr_af) <=> FreqCond(r)
              /\ (FileCandidates(FALSE) = {} /\ FileCandidates(TRUE) = {}) => FreqCond(r)
              /\ FilterDone => (Kept(r) => FreqCond(r))
              /\ FilterDone => (FreqCond(r) /\ CohortCond(r) /\ ImpactCond(r) => Kept(r))

\* a row whose global max is missing and whose AFR max is under the threshold
\* has been kept.
C7_Witness ==
    /\ FilterDone
    /\ gnomad_all = "gnomad_AF_max" /\ gnomad_afr = "gnomad_AFR_AF_max"
    /\ \E r \in DOMAIN merged.data :
          /\ Column(merged, "gnomad_AF_max")[r] = NaN
          /\ Column(merged, "gnomad_AFR_AF_max")[r] = Num(1, 1000)
          /\ Kept(r)

============================================================================
